---- MODULE Spec2Model ----
(***************************************************************************)
(* The alpaca-lunchbox trading toolkit: the position ledger and the code  *)
(* that writes it.                                                         *)
(*                                                                         *)
(*   db_utils.update_portfolio_position   applies one fill to the ledger   *)
(*   0sync_portfolio.reconcile_portfolio  makes the ledger match the       *)
(*                                        broker's positions               *)
(*   2trade_executor.calculate_allocation sizes an order from an RSI       *)
(*   2trade_executor.main / interactive_menu   the trade session           *)
(*   1rsi_compare.rsi / main              the RSI and the fetch of bars    *)
(*   3portfolio_analyzer.analyze_portfolio     the analyzer session        *)
(*                                                                         *)
(* Specifications:                                                         *)
(*   Spec       fills and reconciliations, each applied whole              *)
(*   SpecRecon  reconciliation runs with a store and a broker that fail    *)
(*   SpecConc   two calls of update_portfolio_position, statement by       *)
(*              statement                                                  *)
(*   SpecAlloc  calculate_allocation on one input                          *)
(*   SpecTrade  one trade session, candidate by candidate                  *)
(*   SpecRsi    the RSI calculator on one series of closes                 *)
(*   SpecAnalyze  one analyzer session, exit candidate by exit candidate   *)
(*   SpecFetch  the fetch of the daily bars, attempt by attempt            *)
(*   SpecOrders   a trade session or an analyzer session                   *)
(*                                                                         *)
(* Prices are floats in the program.  They are modelled as exact rationals *)
(* <<n, d>> in lowest terms (d > 0), so the weighted average and the       *)
(* 1e-6 comparison are computed, not assumed.  The portfolio table is a    *)
(* function from the symbols that have a row to [qty, avg_price]; the      *)
(* table has one row per symbol (fetchone() in the updater reads "the"     *)
(* row), so an INSERT for a symbol that already has a row fails.  `last`   *)
(* records the latest operation on the ledger with the ledger before it.   *)
(***************************************************************************)
EXTENDS Integers, FiniteSets, Sequences, TLC

VARIABLES portfolio, last, nops, pc, req, fetched, start, cfg, alloc, session, orders, logs, calc, fetcher, analysis

callVars == <<pc, req, fetched, start>>
tradeVars == <<cfg, alloc, session, orders, logs>>
toolVars == <<calc, fetcher, analysis>>
vars == <<portfolio, last, nops, pc, req, fetched, start, cfg, alloc, session, orders, logs, calc, fetcher, analysis>>

(* ------------------------------ bounds --------------------------------- *)
MaxOps == 3
MaxRuns == 2

Symbols == {"AAPL", "MSFT"}
FillQtys == {5, 10}
FillPrices == {<<100, 1>>, <<200, 1>>}
Sides == {"buy", "sell"}

(* ----------------------------- rationals ------------------------------- *)
Abs(x) == IF x < 0 THEN -x ELSE x

RECURSIVE GCD(_, _)
GCD(a, b) == IF b = 0 THEN a ELSE GCD(b, a % b)

Norm(n, d) == LET g == GCD(Abs(n), d) IN <<(IF n < 0 THEN -(Abs(n) \div g) ELSE n \div g), d \div g>>

\* x + y over the least common denominator
RatAdd(x, y) == LET g == GCD(x[2], y[2]) IN Norm(x[1] * (y[2] \div g) + y[1] * (x[2] \div g), (x[2] \div g) * y[2])
RatScale(k, x) == Norm(k * x[1], x[2])
\* x / k for an integer k # 0
RatDivInt(x, k) == IF k > 0 THEN Norm(x[1], x[2] * k) ELSE Norm(-x[1], x[2] * (-k))
\* |x - y|
RatGap(x, y) == LET z == RatAdd(x, RatScale(-1, y)) IN <<Abs(z[1]), z[2]>>

(* ------------------------ db_utils.py: the ledger ---------------------- *)
EmptyTable == [s \in {} |-> [qty |-> 0, avg_price |-> <<0, 1>>]]

Position(q, p) == [qty |-> q, avg_price |-> p]

\* cur.execute("SELECT qty, avg_price ...") ; cur.fetchone(): <<>> is None
SelectRow(tbl, symbol) == IF symbol \in DOMAIN tbl THEN <<tbl[symbol]>> ELSE <<>>

\* UPDATE portfolio SET ... WHERE symbol = %s (a missing row matches nothing)
UpdateRow(tbl, symbol, pos) == IF symbol \in DOMAIN tbl THEN [tbl EXCEPT ![symbol] = pos] ELSE tbl

\* DELETE FROM portfolio WHERE symbol = %s
DeleteRow(tbl, symbol) == [s \in (DOMAIN tbl) \ {symbol} |-> tbl[s]]

\* INSERT INTO portfolio (symbol, qty, avg_price): defined when symbol has no row
InsertRow(tbl, symbol, pos) == [s \in (DOMAIN tbl) \cup {symbol} |-> IF s = symbol THEN pos ELSE tbl[s]]

\* The price a buy must not record: the fill price alone
WeightedAvg_FillPriceOnly(old_qty, old_price, qty, price) == price

\* new_avg_price = ((old_qty * old_price) + (qty * price)) / new_qty
WeightedAvg(old_qty, old_price, qty, price) == RatDivInt(RatAdd(RatScale(old_qty, old_price), RatScale(qty, price)), old_qty + qty)

\* side == "buy" on an existing row; the division raises when new_qty is 0
BuyExisting(tbl, old, symbol, qty, price) ==
    IF old.qty + qty = 0
    THEN [tbl |-> tbl, ok |-> FALSE]
    ELSE [tbl |-> UpdateRow(tbl, symbol, Position(old.qty + qty, WeightedAvg(old.qty, old.avg_price, qty, price))), ok |-> TRUE]

\* A sell that deletes only a position that went negative
SellExisting_KeepsZero(tbl, old, symbol, qty, price) ==
    IF old.qty - qty < 0
    THEN [tbl |-> DeleteRow(tbl, symbol), ok |-> TRUE]
    ELSE [tbl |-> UpdateRow(tbl, symbol, Position(old.qty - qty, old.avg_price)), ok |-> TRUE]

\* A sell that records the fill price as the cost basis of what is left
SellExisting_Reprices(tbl, old, symbol, qty, price) ==
    IF old.qty - qty <= 0
    THEN [tbl |-> DeleteRow(tbl, symbol), ok |-> TRUE]
    ELSE [tbl |-> UpdateRow(tbl, symbol, Position(old.qty - qty, price)), ok |-> TRUE]

\* side == "sell" on an existing row: DELETE when new_qty <= 0, else
\* UPDATE portfolio SET qty = new_qty (avg_price is not in the SET list)
SellExisting(tbl, old, symbol, qty, price) ==
    IF old.qty - qty <= 0
    THEN [tbl |-> DeleteRow(tbl, symbol), ok |-> TRUE]
    ELSE [tbl |-> (IF symbol \in DOMAIN tbl THEN [tbl EXCEPT ![symbol].qty = old.qty - qty] ELSE tbl), ok |-> TRUE]

\* No row: INSERT only for a buy; the INSERT raises when the symbol has a row
NoExisting(tbl, symbol, qty, price, side) ==
    IF side = "buy"
    THEN IF symbol \in DOMAIN tbl
         THEN [tbl |-> tbl, ok |-> FALSE]
         ELSE [tbl |-> InsertRow(tbl, symbol, Position(qty, price)), ok |-> TRUE]
    ELSE [tbl |-> tbl, ok |-> TRUE]

\* The statements update_portfolio_position runs after its SELECT returned
\* `row`, against the table as it is when they run.  ok = FALSE is the
\* except branch.
WritePosition(tbl, row, symbol, qty, price, side) ==
    IF row # <<>>
    THEN IF side = "buy"
         THEN BuyExisting(tbl, row[1], symbol, qty, price)
         ELSE IF side = "sell"
              THEN SellExisting(tbl, row[1], symbol, qty, price)
              ELSE [tbl |-> tbl, ok |-> TRUE]
    ELSE NoExisting(tbl, symbol, qty, price, side)

\* One whole call: SELECT, then the write, with nothing in between.
update_portfolio_position(tbl, symbol, qty, price, side) == WritePosition(tbl, SelectRow(tbl, symbol), symbol, qty, price, side)

(* ------------------ 0sync_portfolio.py: reconciliation ----------------- *)
\* 1e-6 = 1 / EpsDen
EpsDen == 1000000

\* The comparison with its sense inverted: abs(...) <= 1e-6
MoreThanEps_Inverted(local_avg, avg_price) == LET gap == RatGap(local_avg, avg_price) IN gap[1] <= gap[2] \div EpsDen

\* abs(local_avg - avg_price) > 1e-6
MoreThanEps(local_avg, avg_price) == LET gap == RatGap(local_avg, avg_price) IN gap[1] > gap[2] \div EpsDen

\* int(float(pos.qty)): the broker reports a decimal string, the fractional
\* part is dropped (toward zero).  Broker quantities are counted in half
\* shares here: 1 is "0.5", 20 is "10", -10 is "-5".
IntOfDecimal(halves) == IF halves >= 0 THEN halves \div 2 ELSE -((-halves) \div 2)

\* A broker account: symbol -> [qty (half shares), avg_entry_price]
Holding(halves, p) == [qty |-> halves, avg_entry_price |-> p]
BrokerAccounts(syms, holdings) == UNION {[S -> holdings] : S \in SUBSET syms}

\* positions = {} ; filled from api.list_positions() ; the except branch
\* logs and returns what was collected: nothing when the call raised.
fetch_alpaca_positions(account, fetch_ok) ==
    IF fetch_ok
    THEN [s \in DOMAIN account |-> Position(IntOfDecimal(account[s].qty), account[s].avg_entry_price)]
    ELSE EmptyTable

\* db.execute_query returns [] when the query raised
fetch_local_portfolio(tbl, read_ok) == IF read_ok THEN tbl ELSE EmptyTable

\* A reconciler that compares the prices with != instead of the 1e-6 band
IntentFor_ExactPrice(symbol, alpaca_positions, local_positions) ==
    IF symbol \in DOMAIN alpaca_positions
    THEN IF symbol \in DOMAIN local_positions
         THEN IF local_positions[symbol] # alpaca_positions[symbol] THEN "update" ELSE "none"
         ELSE "insert"
    ELSE IF symbol \in DOMAIN local_positions THEN "delete" ELSE "none"

\* What the two loops of reconcile_portfolio decide for one symbol
IntentFor(symbol, alpaca_positions, local_positions) ==
    IF symbol \in DOMAIN alpaca_positions
    THEN IF symbol \in DOMAIN local_positions
         THEN IF local_positions[symbol].qty # alpaca_positions[symbol].qty
                 \/ MoreThanEps(local_positions[symbol].avg_price, alpaca_positions[symbol].avg_price)
              THEN "update"
              ELSE "none"
         ELSE "insert"
    ELSE IF symbol \in DOMAIN local_positions THEN "delete" ELSE "none"

\* The symbols reconcile_portfolio issues a statement for
Attempted(alpaca_positions, local_positions) ==
    {s \in DOMAIN alpaca_positions \cup DOMAIN local_positions : IntentFor(s, alpaca_positions, local_positions) # "none"}

\* db.execute_insert for one intent: TRUE when the statement ran.  `failing`
\* are the symbols whose statement raises (lost connection, constraint).
execute_insert(tbl, symbol, intent, failing) ==
    /\ symbol \notin failing
    /\ intent = "insert" => symbol \notin DOMAIN tbl

\* A reconciler whose first loop stops at the first statement that fails:
\* the failure propagates and the deletes are never issued
reconcile_portfolio_Aborts(tbl, alpaca_positions, local_positions, failing) ==
    LET all == DOMAIN alpaca_positions \cup DOMAIN local_positions
        intent == [s \in all |-> IntentFor(s, alpaca_positions, local_positions)]
        attempted == Attempted(alpaca_positions, local_positions)
        raised == \E s \in attempted : intent[s] # "delete" /\ ~execute_insert(tbl, s, intent[s], failing)
        success == {s \in attempted : execute_insert(tbl, s, intent[s], failing) /\ (intent[s] = "delete" => ~raised)}
        written == {s \in success : intent[s] = "insert" \/ (intent[s] = "update" /\ s \in DOMAIN tbl)}
        removed == {s \in success : intent[s] = "delete"}
    IN [tbl |-> [s \in ((DOMAIN tbl) \cup written) \ removed |-> IF s \in written THEN alpaca_positions[s] ELSE tbl[s]],
        updates |-> {s \in attempted : intent[s] = "update"},
        inserts |-> {s \in attempted : intent[s] = "insert"},
        deletes |-> {s \in attempted : intent[s] = "delete"},
        changes_made |-> Cardinality(success)]

\* reconcile_portfolio after its two fetches.  Every statement touches the
\* row of its own symbol only, so the rows are computed symbol by symbol.
reconcile_portfolio(tbl, alpaca_positions, local_positions, failing) ==
    LET all == DOMAIN alpaca_positions \cup DOMAIN local_positions
        intent == [s \in all |-> IntentFor(s, alpaca_positions, local_positions)]
        attempted == Attempted(alpaca_positions, local_positions)
        success == {s \in attempted : execute_insert(tbl, s, intent[s], failing)}
        written == {s \in success : intent[s] = "insert" \/ (intent[s] = "update" /\ s \in DOMAIN tbl)}
        removed == {s \in success : intent[s] = "delete"}
    IN [tbl |-> [s \in ((DOMAIN tbl) \cup written) \ removed |-> IF s \in written THEN alpaca_positions[s] ELSE tbl[s]],
        updates |-> {s \in attempted : intent[s] = "update"},
        inserts |-> {s \in attempted : intent[s] = "insert"},
        deletes |-> {s \in attempted : intent[s] = "delete"},
        changes_made |-> Cardinality(success)]

(* ------------------------------ actions -------------------------------- *)
NoOp == [op |-> "none"]

\* Two sessions (a trade session and an analyzer session are separate
\* processes, each with its own autocommit connection) that may each be
\* inside one call of update_portfolio_position
Procs == {1, 2}
NoReq == [symbol |-> "", qty |-> 0, price |-> <<0, 1>>, side |-> ""]
CallsIdle ==
    /\ pc = [p \in Procs |-> "idle"]
    /\ req = [p \in Procs |-> NoReq]
    /\ fetched = [p \in Procs |-> <<>>]

\* No trade session is running
NoAlloc == [state |-> "none"]
NoSession == [pc |-> "none"]
NoCfg == [extreme |-> 0, primary |-> 0, baseline |-> 0, extreme_multiplier |-> 0, primary_multiplier |-> 0]
TradeIdle ==
    /\ cfg = NoCfg
    /\ alloc = NoAlloc
    /\ session = NoSession
    /\ orders = <<>>
    /\ logs = [trade_log |-> 0, trade_history |-> 0]

\* No RSI calculation, no fetch of daily bars and no analyzer session is
\* running
NoCalc == [state |-> "none"]
NoFetcher == [pc |-> "none"]
NoAnalysis == [pc |-> "none"]
ToolsIdle ==
    /\ calc = NoCalc
    /\ fetcher = NoFetcher
    /\ analysis = NoAnalysis

Init ==
    /\ portfolio = EmptyTable
    /\ last = NoOp
    /\ nops = 0
    /\ start = EmptyTable
    /\ CallsIdle
    /\ TradeIdle
    /\ ToolsIdle

Fill ==
    /\ nops < MaxOps
    /\ \E symbol \in Symbols, qty \in FillQtys, price \in FillPrices, side \in Sides :
         LET r == update_portfolio_position(portfolio, symbol, qty, price, side)
         IN /\ portfolio' = r.tbl
            /\ last' = [op |-> "fill", symbol |-> symbol, qty |-> qty, price |-> price, side |-> side, before |-> portfolio, ok |-> r.ok]
    /\ nops' = nops + 1
    /\ UNCHANGED <<callVars, tradeVars, toolVars>>

\* One run of reconcile_portfolio against the broker account `account`.
\* `oks` are the outcomes the broker call, the ledger query and the
\* statements can have: {TRUE} when nothing fails, BOOLEAN when any can.
Reconcile(accounts, oks, bound) ==
    /\ nops < bound
    /\ \E account \in accounts, fetch_ok \in oks, read_ok \in oks :
         /\ fetch_ok \/ account = EmptyTable
         /\ read_ok \/ portfolio # EmptyTable
         /\ \E alpaca_positions \in {fetch_alpaca_positions(account, fetch_ok)},
               local_positions \in {fetch_local_portfolio(portfolio, read_ok)} :
              \E failing \in (IF FALSE \in oks THEN SUBSET Attempted(alpaca_positions, local_positions) ELSE {{}}) :
                \E r \in {reconcile_portfolio(portfolio, alpaca_positions, local_positions, failing)} :
                  /\ portfolio' = r.tbl
                  /\ last' = [op |-> "reconcile", fetch_ok |-> fetch_ok, read_ok |-> read_ok,
                              alpaca_positions |-> alpaca_positions, local_positions |-> local_positions,
                              failing |-> failing, before |-> portfolio,
                              updates |-> r.updates, inserts |-> r.inserts, deletes |-> r.deletes,
                              changes_made |-> r.changes_made,
                              rerun |-> last.op = "reconcile" /\ last.alpaca_positions = alpaca_positions,
                              prev_clean |-> last.op = "reconcile" /\ last.read_ok /\ last.failing = {},
                              prev_changes |-> IF last.op = "reconcile" THEN last.changes_made ELSE 0]
    /\ nops' = nops + 1
    /\ UNCHANGED <<callVars, tradeVars, toolVars>>

\* Broker accounts of the ledger life cycle: a long position, a fractional
\* position below one share and a short position
CoarseAccounts == BrokerAccounts(Symbols, {Holding(-10, <<100, 1>>), Holding(1, <<100, 1>>), Holding(20, <<100, 1>>)})
SyncPortfolio == Reconcile(CoarseAccounts, {TRUE}, MaxOps)

Next == Fill \/ SyncPortfolio

Spec == Init /\ [][Next]_vars

(* --------------------- reconciliation runs alone ----------------------- *)
\* Broker accounts whose average prices are 100, 100.0000005 (closer to 100
\* than 1e-6) and 100.000002 (farther), and a store that can fail.
WideSymbols == Symbols \cup {"NVDA"}
Near100 == <<200000001, 2000000>>
Off100 == <<50000001, 500000>>
FineHoldings == {Holding(10, <<100, 1>>), Holding(20, <<100, 1>>), Holding(10, Near100), Holding(10, Off100)}
FineAccounts ==
    {a \in BrokerAccounts(WideSymbols, FineHoldings) :
        /\ "MSFT" \in DOMAIN a => a["MSFT"] = Holding(10, <<100, 1>>)
        /\ "NVDA" \in DOMAIN a => a["NVDA"] = Holding(10, <<100, 1>>)}
SyncFine == Reconcile(FineAccounts, BOOLEAN, MaxRuns)

NextRecon == SyncFine

SpecRecon == Init /\ [][NextRecon]_vars

(* ------------- two calls of update_portfolio_position at once ---------- *)
\* The connection is in autocommit mode (DatabaseManager.connect), so the
\* SELECT and the statement that follows it are two transactions: another
\* session's statement can run in between.
\* The calls start from a ledger that holds both symbols.
StartTables == {[s \in Symbols |-> Position(10, <<100, 1>>)], [s \in Symbols |-> Position(5, <<200, 1>>)]}

InitConc ==
    /\ portfolio \in StartTables
    /\ start = portfolio
    /\ last = NoOp
    /\ nops = 0
    /\ CallsIdle
    /\ TradeIdle
    /\ ToolsIdle

\* cur.execute("SELECT qty, avg_price FROM portfolio WHERE symbol = %s") ; fetchone()
SelectStep(p) ==
    /\ pc[p] = "idle"
    /\ \E symbol \in Symbols, qty \in FillQtys, price \in FillPrices, side \in Sides :
         /\ req' = [req EXCEPT ![p] = [symbol |-> symbol, qty |-> qty, price |-> price, side |-> side]]
         /\ fetched' = [fetched EXCEPT ![p] = SelectRow(portfolio, symbol)]
    /\ pc' = [pc EXCEPT ![p] = "write"]
    /\ UNCHANGED <<portfolio, last, nops, start, tradeVars, toolVars>>

\* the UPDATE / DELETE / INSERT computed from the row read earlier
WriteStep(p) ==
    /\ pc[p] = "write"
    /\ portfolio' = WritePosition(portfolio, fetched[p], req[p].symbol, req[p].qty, req[p].price, req[p].side).tbl
    /\ pc' = [pc EXCEPT ![p] = "done"]
    /\ UNCHANGED <<last, nops, req, fetched, start, tradeVars, toolVars>>

NextConc == \E p \in Procs : SelectStep(p) \/ WriteStep(p)

SpecConc == InitConc /\ [][NextConc]_vars
(* ============================ the ledger =============================== *)
RowOf(tbl, symbol) == SelectRow(tbl, symbol)

\* C1: after any sequence of fills and reconciliations every position
\* stored in the ledger has qty > 0.
C1_StoredQtyPositive == \A s \in DOMAIN portfolio : portfolio[s].qty > 0

\* C3: a buy fill creates a position (fill_qty, fill_price) when the symbol
\* has none, and otherwise yields qty = old_qty + fill_qty and
\* avg_price = (old_qty*old_avg + fill_qty*fill_price) / (old_qty + fill_qty),
\* wherever that quotient is defined.
C3_BuyWeightedAverage ==
    (last.op = "fill" /\ last.side = "buy") =>
        IF last.symbol \notin DOMAIN last.before
        THEN /\ last.symbol \in DOMAIN portfolio
             /\ portfolio[last.symbol].qty = last.qty
             /\ portfolio[last.symbol].avg_price = last.price
        ELSE LET old == last.before[last.symbol]
             IN old.qty + last.qty # 0 =>
                  /\ last.symbol \in DOMAIN portfolio
                  /\ portfolio[last.symbol].qty = old.qty + last.qty
                  /\ RatScale(old.qty + last.qty, portfolio[last.symbol].avg_price)
                       = RatAdd(RatScale(old.qty, old.avg_price), RatScale(last.qty, last.price))

\* 10 @ 100 then 10 @ 200 gives qty 20, avg_price 150
C3_Witness ==
    /\ last.op = "fill" /\ last.side = "buy" /\ last.symbol = "AAPL"
    /\ last.qty = 10 /\ last.price = <<200, 1>>
    /\ RowOf(last.before, "AAPL") = <<Position(10, <<100, 1>>)>>
    /\ RowOf(portfolio, "AAPL") = <<Position(20, <<150, 1>>)>>

\* C4: a sell fill of at least the held quantity removes the position: the
\* symbol is absent afterward.
C4_SellAllDeletes ==
    (/\ last.op = "fill" /\ last.side = "sell"
     /\ last.symbol \in DOMAIN last.before
     /\ last.qty >= last.before[last.symbol].qty) => last.symbol \notin DOMAIN portfolio

\* position qty = 5, sell 5
C4_Witness ==
    /\ last.op = "fill" /\ last.side = "sell"
    /\ last.symbol \in DOMAIN last.before
    /\ last.before[last.symbol].qty = 5 /\ last.qty = 5
    /\ last.symbol \notin DOMAIN portfolio

\* C5: a partial sell reduces qty by the fill quantity and leaves avg_price
\* and every other symbol's position unchanged.
C5_PartialSellFrame ==
    (/\ last.op = "fill" /\ last.side = "sell"
     /\ last.symbol \in DOMAIN last.before
     /\ last.qty < last.before[last.symbol].qty) =>
        /\ last.symbol \in DOMAIN portfolio
        /\ portfolio[last.symbol].qty = last.before[last.symbol].qty - last.qty
        /\ portfolio[last.symbol].avg_price = last.before[last.symbol].avg_price
        /\ \A s \in Symbols \ {last.symbol} : RowOf(portfolio, s) = RowOf(last.before, s)

C5_Witness ==
    /\ last.op = "fill" /\ last.side = "sell"
    /\ last.symbol \in DOMAIN last.before
    /\ last.before[last.symbol].qty = 10 /\ last.qty = 5
    /\ last.price # last.before[last.symbol].avg_price
    /\ \E s \in DOMAIN portfolio : s # last.symbol
    /\ RowOf(portfolio, last.symbol) = <<Position(5, last.before[last.symbol].avg_price)>>
(* ------------------ 2trade_executor.py: allocation --------------------- *)
\* config/strategy_config.json, read once at import: the thresholds and
\* weights of the spec's example, the same with a primary multiplier of 3,
\* and a configuration whose primary threshold lies above RSI_HIVAL
Config(e, p, b, em, pm) == [extreme |-> e, primary |-> p, baseline |-> b, extreme_multiplier |-> em, primary_multiplier |-> pm]
Configs == {Config(20, 26, 1000, 2, 1), Config(20, 26, 1000, 2, 3), Config(30, 90, 500, 3, 1)}

\* a // b for b # 0 (floor division)
FloorDiv(a, b) == IF b > 0 THEN a \div b ELSE (-a) \div (-b)

\* qty = int(dollars // price); the division raises when price is 0
Shares(dollars, price) ==
    IF price[1] = 0
    THEN [dollars |-> dollars, qty |-> 0, raised |-> TRUE]
    ELSE [dollars |-> dollars, qty |-> FloorDiv(dollars * price[2], price[1]), raised |-> FALSE]

\* A sizer whose threshold tests are inclusive
calculate_allocation_Inclusive(c, rsi_value, price) ==
    IF rsi_value <= c.extreme
    THEN Shares(c.baseline * c.extreme_multiplier, price)
    ELSE IF rsi_value <= c.primary
    THEN Shares(c.baseline * c.primary_multiplier, price)
    ELSE [dollars |-> 0, qty |-> 0, raised |-> FALSE]

calculate_allocation(c, rsi_value, price) ==
    IF rsi_value < c.extreme
    THEN Shares(c.baseline * c.extreme_multiplier, price)
    ELSE IF rsi_value < c.primary
    THEN Shares(c.baseline * c.primary_multiplier, price)
    ELSE [dollars |-> 0, qty |-> 0, raised |-> FALSE]

\* The sizer applied to one (configuration, RSI, price)
AllocRsis == {15, 19, 20, 25, 26, 27, 85}
AllocPrices == {<<50, 1>>, <<67, 2>>, <<100, 1>>, <<3000, 1>>}

InitAlloc ==
    /\ portfolio = EmptyTable
    /\ last = NoOp
    /\ nops = 0
    /\ start = EmptyTable
    /\ CallsIdle
    /\ cfg \in Configs
    /\ \E rsi_value \in AllocRsis, price \in AllocPrices : alloc = [state |-> "call", rsi |-> rsi_value, price |-> price]
    /\ session = NoSession
    /\ orders = <<>>
    /\ logs = [trade_log |-> 0, trade_history |-> 0]
    /\ ToolsIdle

Allocate ==
    /\ alloc.state = "call"
    /\ \E r \in {calculate_allocation(cfg, alloc.rsi, alloc.price)} :
         alloc' = [state |-> "returned", rsi |-> alloc.rsi, price |-> alloc.price, dollars |-> r.dollars, qty |-> r.qty, raised |-> r.raised]
    /\ UNCHANGED <<portfolio, last, nops, callVars, cfg, session, orders, logs, toolVars>>

NextAlloc == Allocate

SpecAlloc == InitAlloc /\ [][NextAlloc]_vars

(* ----------------- 2trade_executor.py: the trade session --------------- *)
RSI_LOVAL == 26
RSI_HIVAL == 80

RatLess(x, y) == x[1] * y[2] < y[1] * x[2]

\* get_latest_snapshots(): one row per symbol, ORDER BY symbol
SnapRsis == {15, 22, 50, 85}
Snapshots == {<<[Symbol |-> "AAPL", RSI |-> a], [Symbol |-> "MSFT", RSI |-> b]>> : a \in SnapRsis, b \in SnapRsis}

IsOversold(r) == r.RSI < RSI_LOVAL
IsOverbought(r) == r.RSI > RSI_HIVAL

\* sort_values(by="RSI", ascending=True)
RECURSIVE InsertByRsi(_, _)
InsertByRsi(r, rows) ==
    IF rows = <<>> THEN <<r>>
    ELSE IF r.RSI < Head(rows).RSI THEN <<r>> \o rows
    ELSE <<Head(rows)>> \o InsertByRsi(r, Tail(rows))

RECURSIVE SortByRsi(_)
SortByRsi(rows) == IF rows = <<>> THEN <<>> ELSE InsertByRsi(rows[Len(rows)], SortByRsi(SubSeq(rows, 1, Len(rows) - 1)))

\* What the session can be told: a price (or none), the cash of the account
\* (or none when get_account raised), the answers typed at the prompts
\* bar['close'].iloc[-1] is whatever the broker's bar holds, a close of 0
\* included.  account.cash is AccountCash whether or not get_account()
\* answered.
TradePrices == {<<50, 1>>, <<100, 1>>, <<0, 1>>}
AccountCash == <<3000, 1>>
NoCash == [known |-> FALSE, amount |-> <<0, 1>>]
CashOutcomes == {NoCash, [known |-> TRUE, amount |-> AccountCash]}
TradeTables == {EmptyTable, [s \in {"AAPL"} |-> Position(10, <<100, 1>>)]}

\* What one pass of the loop of interactive_menu did with its candidate:
\*   no_price      price is None, continue
\*   raised        calculate_allocation raised, the session ends
\*   zero_qty      qty == 0, continue
\*   no_cash       cost > cash_available, continue
\*   declined, aborted           the answers "n" and "s"
\*   order_failed, submitted     the answer "y" and what submit_order returned
\* `before` is what the pass found: the ledger, the two log tables, the
\* number of orders the broker accepted so far and the cash carried forward
NoStep == [side |-> "", symbol |-> "", priced |-> FALSE, price |-> <<0, 1>>, qty |-> 0, outcome |-> "none", after_abort |-> FALSE,
           before |-> [portfolio |-> EmptyTable, logs |-> [trade_log |-> 0, trade_history |-> 0], orders |-> 0, cash_available |-> NoCash]]
Prompted == {"declined", "aborted", "order_failed", "submitted"}
Approved == {"order_failed", "submitted"}

InitTrade ==
    /\ portfolio \in TradeTables
    /\ last = NoOp
    /\ nops = 0
    /\ start = EmptyTable
    /\ CallsIdle
    /\ cfg \in Configs
    /\ alloc = NoAlloc
    /\ \E snapshot_df \in Snapshots :
         session = [pc |-> "main", snapshot_df |-> snapshot_df, oversold_df |-> <<>>, overbought_df |-> <<>>,
                    idx |-> 1, cash_available |-> NoCash, aborted |-> FALSE, step |-> NoStep]
    /\ orders = <<>>
    /\ logs = [trade_log |-> 0, trade_history |-> 0]
    /\ ToolsIdle

\* main() up to the first menu: filter the candidates, read the cash, ask
\* whether to enter the menus
Main ==
    /\ session.pc = "main"
    /\ \E oversold_df \in {SortByRsi(SelectSeq(session.snapshot_df, IsOversold))},
          overbought_df \in {SelectSeq(session.snapshot_df, IsOverbought)} :
         IF oversold_df = <<>> /\ overbought_df = <<>>
         THEN session' = [session EXCEPT !.pc = "done"]
         ELSE \E cash \in CashOutcomes, proceed \in {"y", "n"} :
                session' = [session EXCEPT !.pc = IF proceed = "y" THEN "buy" ELSE "done",
                                           !.oversold_df = oversold_df, !.overbought_df = overbought_df,
                                           !.cash_available = cash]
    /\ UNCHANGED <<portfolio, last, nops, callVars, cfg, alloc, orders, logs, toolVars>>

NextMenu(side) == IF side = "buy" THEN "sell" ELSE "done"

\* interactive_menu returns (end of the candidates) and main goes on
MenuReturn ==
    /\ session.pc \in Sides
    /\ session.idx > Len(IF session.pc = "buy" THEN session.oversold_df ELSE session.overbought_df)
    /\ session' = [session EXCEPT !.pc = NextMenu(session.pc), !.idx = 1]
    /\ UNCHANGED <<portfolio, last, nops, callVars, cfg, alloc, orders, logs, toolVars>>

\* submit_order succeeded for (symbol, side, qty, price): the two log rows
\* (each insert can fail by itself), then update_portfolio_position, then
\* the cash carried to the next candidate
Submitted(step, cost, log_ok, hist_ok) ==
    \E r \in {update_portfolio_position(portfolio, step.symbol, step.qty, step.price, step.side)} :
      /\ orders' = Append(orders, [symbol |-> step.symbol, side |-> step.side, qty |-> step.qty, price |-> step.price,
                                   held |-> step.symbol \in DOMAIN portfolio])
      /\ logs' = [trade_log |-> logs.trade_log + (IF log_ok THEN 1 ELSE 0),
                  trade_history |-> logs.trade_history + (IF hist_ok THEN 1 ELSE 0)]
      /\ portfolio' = r.tbl
      /\ last' = [op |-> "fill", symbol |-> step.symbol, qty |-> step.qty, price |-> step.price, side |-> step.side,
                  before |-> portfolio, ok |-> r.ok]
      /\ session' = [session EXCEPT !.idx = session.idx + 1,
                                    !.step = step,
                                    !.cash_available = IF step.side = "buy" /\ session.cash_available.known
                                                       THEN [known |-> TRUE, amount |-> RatAdd(session.cash_available.amount, RatScale(-1, cost))]
                                                       ELSE session.cash_available]

\* A menu that writes a trade_log row for the order the broker refused
Skip_LogsAttempt(step) ==
    /\ session' = [session EXCEPT !.idx = session.idx + 1, !.step = step]
    /\ logs' = IF step.outcome = "order_failed" THEN [logs EXCEPT !.trade_log = @ + 1] ELSE logs
    /\ UNCHANGED <<portfolio, last, orders>>

\* the candidate is passed over and the loop goes on
Skip(step) ==
    /\ session' = [session EXCEPT !.idx = session.idx + 1, !.step = step]
    /\ UNCHANGED <<portfolio, last, orders, logs>>

\* break: the rest of this menu's candidates is skipped
Break(step) ==
    /\ session' = [session EXCEPT !.pc = NextMenu(step.side), !.idx = 1, !.aborted = TRUE, !.step = step]
    /\ UNCHANGED <<portfolio, last, orders, logs>>

\* the exception leaves interactive_menu and main: nothing catches it
Raise(step) ==
    /\ session' = [session EXCEPT !.pc = "crashed", !.step = step]
    /\ UNCHANGED <<portfolio, last, orders, logs>>

\* One pass of the loop of interactive_menu
MenuCandidate ==
    /\ session.pc \in Sides
    /\ session.idx <= Len(IF session.pc = "buy" THEN session.oversold_df ELSE session.overbought_df)
    /\ LET side == session.pc
           candidate == (IF side = "buy" THEN session.oversold_df ELSE session.overbought_df)[session.idx]
           Step(priced, price, qty, outcome) ==
               [side |-> side, symbol |-> candidate.Symbol, priced |-> priced, price |-> price, qty |-> qty,
                outcome |-> outcome, after_abort |-> session.aborted,
                before |-> [portfolio |-> portfolio, logs |-> logs, orders |-> Len(orders), cash_available |-> session.cash_available]]
       IN \E priced \in BOOLEAN, price \in TradePrices :
            IF ~priced
            THEN price = <<50, 1>> /\ alloc' = alloc /\ Skip(Step(FALSE, <<0, 1>>, 0, "no_price"))
            ELSE \E a \in {calculate_allocation(cfg, candidate.RSI, price)} :
                   /\ alloc' = [state |-> "returned", rsi |-> candidate.RSI, price |-> price, dollars |-> a.dollars, qty |-> a.qty, raised |-> a.raised]
                   /\ IF a.raised
                      THEN Raise(Step(TRUE, price, 0, "raised"))
                      ELSE IF a.qty = 0
                      THEN Skip(Step(TRUE, price, 0, "zero_qty"))
                      ELSE IF side = "buy" /\ session.cash_available.known /\ RatLess(session.cash_available.amount, RatScale(a.qty, price))
                      THEN Skip(Step(TRUE, price, a.qty, "no_cash"))
                      ELSE \E choice \in {"y", "n", "s"} :
                             IF choice = "y"
                             THEN \E order_ok \in BOOLEAN, log_ok \in BOOLEAN, hist_ok \in BOOLEAN :
                                    IF order_ok
                                    THEN Submitted(Step(TRUE, price, a.qty, "submitted"), RatScale(a.qty, price), log_ok, hist_ok)
                                    ELSE log_ok /\ hist_ok /\ Skip(Step(TRUE, price, a.qty, "order_failed"))
                             ELSE IF choice = "s"
                             THEN Break(Step(TRUE, price, a.qty, "aborted"))
                             ELSE Skip(Step(TRUE, price, a.qty, "declined"))
    /\ UNCHANGED <<nops, callVars, cfg, toolVars>>

NextTrade == Main \/ MenuCandidate \/ MenuReturn

SpecTrade == InitTrade /\ [][NextTrade]_vars

(* ========================= concurrent fills ============================ *)
SerialResult(first, second) ==
    LET t == update_portfolio_position(start, req[first].symbol, req[first].qty, req[first].price, req[first].side).tbl
    IN update_portfolio_position(t, req[second].symbol, req[second].qty, req[second].price, req[second].side).tbl

\* C2: when two fills for the same symbol are applied concurrently, the
\* final position equals the result of applying them in some serial order.
C2_SerialOutcome ==
    (/\ \A p \in Procs : pc[p] = "done"
     /\ req[1].symbol = req[2].symbol) => portfolio \in {SerialResult(1, 2), SerialResult(2, 1)}
(* =========================== reconciliation ============================ *)
\* The intent sets the reconciler is specified to produce from the ledger
\* it read (L) and the snapshot it fetched (E)
FartherThanEps(x, y) == RatGap(x, y)[1] * EpsDen > RatGap(x, y)[2]
ExpectedUpdates(L, E) == {s \in DOMAIN L \cap DOMAIN E : L[s].qty # E[s].qty \/ FartherThanEps(L[s].avg_price, E[s].avg_price)}
ExpectedInserts(L, E) == DOMAIN E \ DOMAIN L
ExpectedDeletes(L, E) == DOMAIN L \ DOMAIN E
NoIntents == last.updates = {} /\ last.inserts = {} /\ last.deletes = {}

C8_IntentSets ==
    last.op = "reconcile" =>
        LET L == last.local_positions
            E == last.alpaca_positions
        IN /\ last.updates = ExpectedUpdates(L, E)
           /\ last.inserts = ExpectedInserts(L, E)
           /\ last.deletes = ExpectedDeletes(L, E)
           /\ last.updates \cap last.inserts = {}
           /\ last.updates \cap last.deletes = {}
           /\ last.inserts \cap last.deletes = {}
           /\ \A s \in last.inserts : (s \notin last.failing /\ s \notin DOMAIN last.before) => RowOf(portfolio, s) = <<E[s]>>

\* an update, an insert and a delete in one run, next to a symbol whose
\* price is within 1e-6 of the broker's and gets no intent
C8_Witness ==
    /\ last.op = "reconcile" /\ last.failing = {}
    /\ last.updates # {} /\ last.inserts # {} /\ last.deletes # {}
    /\ \E s \in last.updates : last.local_positions[s].qty = last.alpaca_positions[s].qty
    /\ \A s \in last.inserts : RowOf(portfolio, s) = <<last.alpaca_positions[s]>>

\* C9: in one pass every update, insert and delete intent is attempted even
\* when applying some of them fails (an intent whose statement the store
\* accepts takes effect), and the reported change count is the number of
\* intents that were applied.
C9_BestEffort ==
    last.op = "reconcile" =>
        LET L == last.local_positions
            E == last.alpaca_positions
        IN /\ \A s \in ExpectedUpdates(L, E) : s \notin last.failing => RowOf(portfolio, s) = <<E[s]>>
           /\ \A s \in ExpectedInserts(L, E) : (s \notin last.failing /\ s \notin DOMAIN last.before) => RowOf(portfolio, s) = <<E[s]>>
           /\ \A s \in ExpectedDeletes(L, E) : s \notin last.failing => s \notin DOMAIN portfolio
           /\ \A s \in last.failing : RowOf(portfolio, s) = RowOf(last.before, s)
           /\ last.changes_made = Cardinality({s \in WideSymbols : RowOf(portfolio, s) # RowOf(last.before, s)})

\* a statement of the first loop failed and a delete was still applied
C9_Witness ==
    /\ last.op = "reconcile"
    /\ last.failing \cap (last.updates \cup last.inserts) # {}
    /\ \E s \in last.deletes : s \in DOMAIN last.before /\ s \notin DOMAIN portfolio
    /\ last.changes_made = 1
(* ============================= allocation ============================== *)
\* C10: target dollars = baseline * extreme_multiplier when rsi < extreme,
\* baseline * primary_multiplier when extreme <= rsi < primary, and 0 dollars
\* with qty 0 otherwise; for a positive target qty = floor(dollars / price).
C10_Allocation ==
    alloc.state = "returned" =>
        /\ ~alloc.raised
        /\ alloc.rsi < cfg.extreme => alloc.dollars = cfg.baseline * cfg.extreme_multiplier
        /\ (cfg.extreme <= alloc.rsi /\ alloc.rsi < cfg.primary) => alloc.dollars = cfg.baseline * cfg.primary_multiplier
        /\ (cfg.extreme <= alloc.rsi /\ cfg.primary <= alloc.rsi) => (alloc.dollars = 0 /\ alloc.qty = 0)
        /\ alloc.dollars > 0 =>
             /\ alloc.qty * alloc.price[1] <= alloc.dollars * alloc.price[2]
             /\ alloc.dollars * alloc.price[2] < (alloc.qty + 1) * alloc.price[1]

\* rsi 15, extreme 20, primary 26, baseline 1000, extreme_multiplier 2,
\* price 50: 2000 dollars and qty 40
C10_Witness ==
    /\ alloc.state = "returned"
    /\ cfg = Config(20, 26, 1000, 2, 1)
    /\ alloc.rsi = 15 /\ alloc.price = <<50, 1>>
    /\ alloc.dollars = 2000 /\ alloc.qty = 40
(* =========================== trade session ============================= *)
\* C6: a sell for a symbol that has no position in the ledger is declined by
\* the trade session: no sell order is submitted for it and
\* update_portfolio_position is never called with side sell for it.
C6_NoSellOfUntracked ==
    /\ \A i \in DOMAIN orders : orders[i].side = "sell" => orders[i].held
    /\ (last.op = "fill" /\ last.side = "sell") => last.symbol \in DOMAIN last.before

(* ------------------- 1rsi_compare.py: the RSI calculator --------------- *)
\* A pandas float: a number (an exact rational here), NaN, or an infinity.
\* The sign of an infinity or of a zero makes no difference to what rsi
\* returns (100 / inf and 100 / -inf both leave 100) and is not kept.
Nan == [kind |-> "nan", v |-> <<0, 1>>]
Inf == [kind |-> "inf", v |-> <<0, 1>>]
Num(r) == [kind |-> "num", v |-> r]
IsNan(x) == x.kind = "nan"

\* x / y for rationals, y # 0
RatDiv(x, y) == IF y[1] > 0 THEN Norm(x[1] * y[2], x[2] * y[1]) ELSE Norm(-(x[1] * y[2]), x[2] * (-y[1]))

\* series.diff(): the first entry has no predecessor
Diff(series) == [i \in 1..Len(series) |-> IF i = 1 THEN Nan ELSE Num(<<series[i] - series[i - 1], 1>>)]

\* .clip(lower=0) and .clip(upper=0): NaN stays NaN
ClipLower(xs) == [i \in 1..Len(xs) |-> IF IsNan(xs[i]) \/ xs[i].v[1] >= 0 THEN xs[i] ELSE Num(<<0, 1>>)]
ClipUpper(xs) == [i \in 1..Len(xs) |-> IF IsNan(xs[i]) \/ xs[i].v[1] <= 0 THEN xs[i] ELSE Num(<<0, 1>>)]

RECURSIVE SumOver(_, _, _)
SumOver(xs, lo, hi) == IF lo > hi THEN <<0, 1>> ELSE RatAdd(xs[hi].v, SumOver(xs, lo, hi - 1))

\* .rolling(window=period).mean(): min_periods is the window size, so an
\* entry is a number only when the window is full and holds no NaN
RollingMean(xs, window) ==
    [i \in 1..Len(xs) |->
        IF i < window \/ \E j \in (i - window + 1)..i : IsNan(xs[j])
        THEN Nan
        ELSE Num(RatDivInt(SumOver(xs, i - window + 1, i), window)) ]

Negate(xs) == [i \in 1..Len(xs) |-> IF IsNan(xs[i]) THEN Nan ELSE Num(RatScale(-1, xs[i].v))]

\* gain / loss, entry by entry as floats: 0/0 is NaN and x/0 an infinity,
\* nothing raises
FloatDiv(x, y) ==
    IF IsNan(x) \/ IsNan(y) THEN Nan
    ELSE IF y.v[1] = 0 THEN (IF x.v[1] = 0 THEN Nan ELSE Inf)
    ELSE Num(RatDiv(x.v, y.v))

\* 100 - (100 / (1 + rs)); rs >= 0, so 1 + rs is never 0
FromRs(rs) ==
    IF IsNan(rs) THEN Nan
    ELSE IF rs.kind = "inf" THEN Num(<<100, 1>>)
    ELSE Num(RatAdd(<<100, 1>>, RatScale(-1, RatDiv(<<100, 1>>, RatAdd(<<1, 1>>, rs.v)))))

rsi(series, period) ==
    LET delta == Diff(series)
        gain == RollingMean(ClipLower(delta), period)
        loss == Negate(RollingMean(ClipUpper(delta), period))
    IN [i \in 1..Len(series) |-> FromRs(FloatDiv(gain[i], loss[i]))]

\* calculate_rsi_for_symbols for one symbol: the rows appended to
\* rsi_results from its closes (ORDER BY trade_date)
calculate_rsi_for_symbols(series, period) ==
    IF Len(series) >= period
    THEN <<[RSI |-> rsi(series, period)[Len(series)], Close |-> series[Len(series)]]>>
    ELSE <<>>

\* The closes of one symbol and the configured period
MaxLen == 4
Closes == {10, 11, 12}
Periods == {2, 3}
SeriesUpTo(n) == UNION {[1..k -> Closes] : k \in 0..n}

InitRsi ==
    /\ portfolio = EmptyTable
    /\ last = NoOp
    /\ nops = 0
    /\ start = EmptyTable
    /\ CallsIdle
    /\ TradeIdle
    /\ \E series \in SeriesUpTo(MaxLen), period \in Periods : calc = [state |-> "call", series |-> series, period |-> period]
    /\ fetcher = NoFetcher
    /\ analysis = NoAnalysis

\* rsi(series, period) on the closes
RsiOfSeries ==
    /\ calc.state = "call"
    /\ calc' = [state |-> "rsi", series |-> calc.series, period |-> calc.period, out |-> rsi(calc.series, calc.period)]
    /\ UNCHANGED <<portfolio, last, nops, callVars, tradeVars, fetcher, analysis>>

\* the loop body of calculate_rsi_for_symbols on the closes
SnapshotOfSeries ==
    /\ calc.state = "call"
    /\ calc' = [state |-> "rows", series |-> calc.series, period |-> calc.period, rows |-> calculate_rsi_for_symbols(calc.series, calc.period)]
    /\ UNCHANGED <<portfolio, last, nops, callVars, tradeVars, fetcher, analysis>>

NextRsi == RsiOfSeries \/ SnapshotOfSeries

SpecRsi == InitRsi /\ [][NextRsi]_vars

(* -------------- 3portfolio_analyzer.py: the analyzer session ----------- *)
\* CFG["exit"]: rsi_exit, hold_max_days and the three average-down settings
\* with the defaults of their .get()
ExitConfig(e, d, l, r, q) == [rsi_exit |-> e, hold_max_days |-> d, avg_down_loss_pct |-> l, avg_down_rsi |-> r, avg_down_max_qty |-> q]
ExitConfigs == {ExitConfig(70, 30, -10, 30, 200)}

RatLeq(x, y) == ~RatLess(y, x)

\* ((Close - AvgPrice) / AvgPrice) * 100
UnrealizedPLPct(close, avg_price) == RatScale(100, RatDiv(RatAdd(close, RatScale(-1, avg_price)), avg_price))

\* One row of get_portfolio_with_prices: the ledger row joined with the
\* latest snapshot of its symbol
PortfolioRow(symbol, pos, snap) ==
    [Symbol |-> symbol, Qty |-> pos.qty, AvgPrice |-> pos.avg_price, RSI |-> snap.rsi, Close |-> snap.price,
     HoldingDays |-> snap.days, UnrealizedPLPct |-> UnrealizedPLPct(snap.price, pos.avg_price)]

\* sort_values(by="UnrealizedPLPct", ascending=False)
RECURSIVE InsertByPl(_, _)
InsertByPl(r, rows) ==
    IF rows = <<>> THEN <<r>>
    ELSE IF RatLess(Head(rows).UnrealizedPLPct, r.UnrealizedPLPct) THEN <<r>> \o rows
    ELSE <<Head(rows)>> \o InsertByPl(r, Tail(rows))

RECURSIVE SortByPl(_)
SortByPl(rows) == IF rows = <<>> THEN <<>> ELSE InsertByPl(rows[Len(rows)], SortByPl(SubSeq(rows, 1, Len(rows) - 1)))

\* The rows come in the order of the symbols, then sorted by P/L
SymbolOrder == <<"AAPL", "MSFT">>
get_portfolio_with_prices(tbl, snaps) ==
    LET Joined(x) == x \in DOMAIN tbl \cap DOMAIN snaps
        held == SelectSeq(SymbolOrder, Joined)
    IN SortByPl([i \in 1..Len(held) |-> PortfolioRow(held[i], tbl[held[i]], snaps[held[i]])])

\* An exit rule that stops at the first trigger that holds
ExitReason_FirstMatch(row, c) ==
    IF row.RSI >= c.rsi_exit THEN <<"rsi">>
    ELSE IF row.HoldingDays > c.hold_max_days THEN <<"held">>
    ELSE <<>>

\* df["ExitReason"] = "" ; += "RSI >= ..; " ; += "Held > ..d; "
ExitReason(row, c) ==
    (IF row.RSI >= c.rsi_exit THEN <<"rsi">> ELSE <<>>) \o (IF row.HoldingDays > c.hold_max_days THEN <<"held">> ELSE <<>>)

is_avg_down_candidate(row, c) ==
    /\ RatLeq(row.UnrealizedPLPct, <<c.avg_down_loss_pct, 1>>)
    /\ row.RSI <= c.avg_down_rsi
    /\ row.Qty <= c.avg_down_max_qty

\* The latest snapshot of a held symbol (rsi, price) and the days since its
\* entry_date
Snap(r, p, d) == [rsi |-> r, price |-> p, days |-> d]
SnapRows == {Snap(r, p, d) : r \in {30, 70, 85}, p \in {<<0, 1>>, <<90, 1>>, <<95, 1>>}, d \in {10, 31}}
AnalyzerTables == UNION {[S -> {Position(10, <<100, 1>>), Position(201, <<100, 1>>)}] : S \in SUBSET Symbols}
AnalyzerCash == {<<500, 1>>, AccountCash}

\* What one pass of the loop of analyze_portfolio did with its candidate
NoPass == [symbol |-> "", choice |-> "", outcome |-> "none", logs_before |-> [trade_log |-> 0, trade_history |-> 0], orders_before |-> 0]

InitAnalyze ==
    /\ portfolio \in AnalyzerTables
    /\ last = NoOp
    /\ nops = 0
    /\ start = EmptyTable
    /\ CallsIdle
    /\ cfg = Config(20, 26, 1000, 2, 1)
    /\ alloc = NoAlloc
    /\ session = NoSession
    /\ orders = <<>>
    /\ logs = [trade_log |-> 0, trade_history |-> 0]
    /\ calc = NoCalc
    /\ fetcher = NoFetcher
    /\ \E exit_cfg \in ExitConfigs, snaps \in [DOMAIN portfolio -> SnapRows] :
         analysis = [pc |-> "start", exit_cfg |-> exit_cfg, snaps |-> snaps, df |-> <<>>, exit_df |-> <<>>, avg_down_df |-> <<>>,
                     idx |-> 1, actions_taken |-> 0, step |-> NoPass]

\* analyze_portfolio up to its loop: load the rows, flag the exits, filter
\* the average-down candidates
Analyze ==
    /\ analysis.pc = "start"
    /\ \E loaded \in {get_portfolio_with_prices(portfolio, analysis.snaps)} :
         LET df == [i \in 1..Len(loaded) |-> loaded[i] @@ [ExitReason |-> ExitReason(loaded[i], analysis.exit_cfg)]]
             Flagged(row) == row.ExitReason # <<>>
             Eligible(row) == is_avg_down_candidate(row, analysis.exit_cfg)
             exit_df == SelectSeq(df, Flagged)
             avg_down_df == SelectSeq(df, Eligible)
         IN analysis' = [analysis EXCEPT !.pc = IF df = <<>> \/ (exit_df = <<>> /\ avg_down_df = <<>>) THEN "done" ELSE "menu",
                                         !.df = df, !.exit_df = exit_df, !.avg_down_df = avg_down_df]
    /\ UNCHANGED <<portfolio, last, nops, callVars, tradeVars, calc, fetcher>>

\* the for loop is exhausted: "Analysis complete"
AnalyzeReturn ==
    /\ analysis.pc = "menu"
    /\ analysis.idx > Len(analysis.exit_df)
    /\ analysis' = [analysis EXCEPT !.pc = "done"]
    /\ UNCHANGED <<portfolio, last, nops, callVars, tradeVars, calc, fetcher>>

\* A handler that buys for whoever answers "a"
AverageDownChosen_Unchecked(choice, eligible) == choice = "a"

\* elif choice == "a" and is_avg_down_candidate
AverageDownChosen(choice, eligible) == choice = "a" /\ eligible

\* the candidate is left as it is and the loop goes on
NextCandidate(step, taken) ==
    /\ analysis' = [analysis EXCEPT !.idx = analysis.idx + 1, !.step = step, !.actions_taken = analysis.actions_taken + taken]
    /\ UNCHANGED <<portfolio, last, orders, logs>>

\* submit_order succeeded: the order, then the two log rows
Logged(symbol, side, qty, price, log_ok, hist_ok) ==
    /\ orders' = Append(orders, [symbol |-> symbol, side |-> side, qty |-> qty, price |-> price, held |-> symbol \in DOMAIN portfolio])
    /\ logs' = [trade_log |-> logs.trade_log + (IF log_ok THEN 1 ELSE 0),
                trade_history |-> logs.trade_history + (IF hist_ok THEN 1 ELSE 0)]

\* handle_exit_candidate(api, row, "sell")
SellCandidate(row, step) ==
    \E order_ok \in BOOLEAN, log_ok \in BOOLEAN, hist_ok \in BOOLEAN, del_ok \in BOOLEAN :
      IF order_ok
      THEN /\ Logged(row.Symbol, "sell", row.Qty, row.Close, log_ok, hist_ok)
           /\ portfolio' = IF del_ok THEN DeleteRow(portfolio, row.Symbol) ELSE portfolio
           /\ last' = [op |-> "delete", symbol |-> row.Symbol, before |-> portfolio, ok |-> del_ok]
           /\ analysis' = [analysis EXCEPT !.idx = analysis.idx + 1, !.step = [step EXCEPT !.outcome = "sold"],
                                           !.actions_taken = analysis.actions_taken + 1]
      ELSE log_ok /\ hist_ok /\ del_ok /\ NextCandidate([step EXCEPT !.outcome = "sell_failed"], 0)

\* handle_exit_candidate(api, row, "average_down")
AverageDown(row, step) ==
    \E a \in {Shares(cfg.baseline, row.Close)} :
      IF a.raised
      THEN /\ analysis' = [analysis EXCEPT !.pc = "failed", !.step = [step EXCEPT !.outcome = "raised"]]
           /\ UNCHANGED <<portfolio, last, orders, logs>>
      ELSE IF a.qty > 0
      THEN \E account_ok \in BOOLEAN, cash_available \in AnalyzerCash :
             IF ~account_ok
             THEN cash_available = AccountCash /\ NextCandidate([step EXCEPT !.outcome = "no_account"], 0)
             ELSE IF RatLess(cash_available, RatScale(a.qty, row.Close))
             THEN NextCandidate([step EXCEPT !.outcome = "no_cash"], 0)
             ELSE \E order_ok \in BOOLEAN, log_ok \in BOOLEAN, hist_ok \in BOOLEAN :
                    IF order_ok
                    THEN \E r \in {update_portfolio_position(portfolio, row.Symbol, a.qty, row.Close, "buy")} :
                           /\ Logged(row.Symbol, "buy", a.qty, row.Close, log_ok, hist_ok)
                           /\ portfolio' = r.tbl
                           /\ last' = [op |-> "fill", symbol |-> row.Symbol, qty |-> a.qty, price |-> row.Close, side |-> "buy",
                                       before |-> portfolio, ok |-> r.ok]
                           /\ analysis' = [analysis EXCEPT !.idx = analysis.idx + 1, !.step = [step EXCEPT !.outcome = "averaged_down"],
                                                           !.actions_taken = analysis.actions_taken + 1]
                    ELSE log_ok /\ hist_ok /\ NextCandidate([step EXCEPT !.outcome = "buy_failed"], 0)
      ELSE NextCandidate([step EXCEPT !.outcome = "no_allocation"], 0)

\* One pass of the loop over exit_df
ExitCandidate ==
    /\ analysis.pc = "menu"
    /\ analysis.idx <= Len(analysis.exit_df)
    /\ LET row == analysis.exit_df[analysis.idx]
           eligible == is_avg_down_candidate(row, analysis.exit_cfg)
       IN \E choice \in {"s", "h", "a", "skip rest"} :
            LET step == [symbol |-> row.Symbol, choice |-> choice, outcome |-> "held", row |-> row, before |-> portfolio,
                         logs_before |-> logs, orders_before |-> Len(orders)]
            IN IF choice = "s"
               THEN SellCandidate(row, step)
               ELSE IF AverageDownChosen(choice, eligible)
               THEN AverageDown(row, step)
               ELSE IF choice = "skip rest"
               THEN /\ analysis' = [analysis EXCEPT !.pc = "done", !.step = [step EXCEPT !.outcome = "skipped_rest"]]
                    /\ UNCHANGED <<portfolio, last, orders, logs>>
               ELSE NextCandidate(step, 0)
    /\ UNCHANGED <<nops, callVars, cfg, alloc, session, calc, fetcher>>

NextAnalyze == Analyze \/ ExitCandidate \/ AnalyzeReturn

SpecAnalyze == InitAnalyze /\ [][NextAnalyze]_vars

(* ------------------ either session that submits orders ---------------- *)
\* A trade session or an analyzer session is run: the two programs that
\* call submit_order.  Each starts from its own initial state and the other
\* one's variables stay idle.
InitOrders == InitTrade \/ InitAnalyze

NextOrders == NextTrade \/ NextAnalyze

SpecOrders == InitOrders /\ [][NextOrders]_vars

(* ------------------- 1rsi_compare.py: fetching the bars ---------------- *)
RATE_LIMIT == 21
max_retries == 5
MaxDates == 2

\* What the process did, in order: a request to the price source for a date
\* (got: it returned bars), a time.sleep, the error log of a date given up
Request(d, got) == [kind |-> "request", date |-> d, got |-> got, secs |-> 0]
Sleep(secs) == [kind |-> "sleep", date |-> 0, got |-> FALSE, secs |-> secs]
GaveUp(d) == [kind |-> "gave_up", date |-> d, got |-> FALSE, secs |-> 0]

\* main(backfill) with dates_to_fetch = 1..n: one date at most without
\* --backfill
InitFetch ==
    /\ portfolio = EmptyTable
    /\ last = NoOp
    /\ nops = 0
    /\ start = EmptyTable
    /\ CallsIdle
    /\ TradeIdle
    /\ calc = NoCalc
    /\ analysis = NoAnalysis
    /\ \E backfill \in BOOLEAN, n \in 0..MaxDates :
         /\ backfill \/ n <= 1
         /\ fetcher = [pc |-> IF n = 0 THEN "done" ELSE "attempt", backfill |-> backfill, dates_to_fetch |-> n,
                       d |-> 1, attempt |-> 0, delay |-> 1, events |-> <<>>, inserted |-> {}]

\* A backoff that waits the same second before every retry
Backoff_Constant(delay) == delay

\* delay *= 2
Backoff(delay) == delay * 2

\* One pass of `for attempt in range(max_retries)`: fetch_grouped_bars(d)
\* returns bars (inserted, break) or an empty frame (its own except branch
\* included); then sleep and double, or log the date as failed
FetchAttempt ==
    /\ fetcher.pc = "attempt"
    /\ \E got \in BOOLEAN :
         IF got
         THEN fetcher' = [fetcher EXCEPT !.pc = "after", !.events = Append(@, Request(fetcher.d, TRUE)),
                                         !.inserted = @ \cup {fetcher.d}]
         ELSE IF fetcher.attempt < max_retries - 1
         THEN fetcher' = [fetcher EXCEPT !.attempt = @ + 1, !.delay = Backoff(@),
                                         !.events = @ \o <<Request(fetcher.d, FALSE), Sleep(fetcher.delay)>>]
         ELSE fetcher' = [fetcher EXCEPT !.pc = "after", !.events = @ \o <<Request(fetcher.d, FALSE), GaveUp(fetcher.d)>>]
    /\ UNCHANGED <<portfolio, last, nops, callVars, tradeVars, calc, analysis>>

\* The end of the body of `for d in dates_to_fetch`: the rate-limit sleep of
\* a backfill, then the next date with max_retries and delay set anew
NextDate ==
    /\ fetcher.pc = "after"
    /\ fetcher' = [fetcher EXCEPT !.pc = IF fetcher.d < fetcher.dates_to_fetch THEN "attempt" ELSE "done",
                                  !.d = @ + 1, !.attempt = 0, !.delay = 1,
                                  !.events = IF fetcher.backfill THEN Append(@, Sleep(RATE_LIMIT)) ELSE @]
    /\ UNCHANGED <<portfolio, last, nops, callVars, tradeVars, calc, analysis>>

NextFetch == FetchAttempt \/ NextDate

\* The process is sequential and every call in the loop returns
SpecFetch == InitFetch /\ [][NextFetch]_vars /\ WF_vars(NextFetch)

(* =========================== RSI calculator ============================ *)
\* C15: for a series of length L and period N the calculator returns L
\* entries of which exactly the first N-1 are undefined; a symbol with fewer
\* than N observations gets no RSI value at all, and
\* calculate_rsi_for_symbols never emits a row whose RSI is undefined.
C15_UndefinedPrefix ==
    /\ calc.state = "rsi" =>
          /\ Len(calc.out) = Len(calc.series)
          /\ \A i \in 1..Len(calc.out) : IsNan(calc.out[i]) <=> i <= calc.period - 1
    /\ calc.state = "rows" =>
          /\ Len(calc.series) < calc.period => calc.rows = <<>>
          /\ \A i \in 1..Len(calc.rows) : ~IsNan(calc.rows[i].RSI)

\* C16: where the closes are non-decreasing over a full window of N changes
\* (a flat window included) the RSI is exactly 100, not an undefined or
\* division-by-zero value.
C16_NoLossIsHundred ==
    calc.state = "rsi" =>
        \A i \in (calc.period + 1)..Len(calc.series) :
            (\A j \in (i - calc.period + 1)..i : calc.series[j] >= calc.series[j - 1]) => calc.out[i] = Num(<<100, 1>>)

(* ============================ the analyzer ============================= *)
Reasons(row) == {row.ExitReason[k] : k \in 1..Len(row.ExitReason)}

\* C17: a held position is flagged for exit when RSI >= rsi_exit or holding
\* days > hold_max_days, and its exit reason lists every trigger that holds:
\* both when both hold, only the RSI reason when only the RSI trigger holds.
C17_ExitReasons ==
    analysis.pc \in {"menu", "done", "failed"} =>
        /\ {analysis.df[i].Symbol : i \in 1..Len(analysis.df)} = DOMAIN analysis.snaps
        /\ \A i \in 1..Len(analysis.df) :
             LET row == analysis.df[i]
                 snap == analysis.snaps[row.Symbol]
                 by_rsi == snap.rsi >= analysis.exit_cfg.rsi_exit
                 by_days == snap.days > analysis.exit_cfg.hold_max_days
             IN /\ (\E j \in 1..Len(analysis.exit_df) : analysis.exit_df[j] = row) <=> (by_rsi \/ by_days)
                /\ "rsi" \in Reasons(row) <=> by_rsi
                /\ "held" \in Reasons(row) <=> by_days
                /\ Len(row.ExitReason) = Cardinality(Reasons(row))

\* RSI 85 with exit 70, 10 days held with max 30: the RSI reason only, next
\* to a position that is flagged for both reasons
C17_Witness ==
    /\ analysis.pc = "menu"
    /\ analysis.exit_cfg.rsi_exit = 70 /\ analysis.exit_cfg.hold_max_days = 30
    /\ \E j \in 1..Len(analysis.exit_df) :
         /\ analysis.exit_df[j].RSI = 85 /\ analysis.exit_df[j].HoldingDays = 10
         /\ analysis.exit_df[j].ExitReason = <<"rsi">>
    /\ \E j \in 1..Len(analysis.exit_df) : analysis.exit_df[j].ExitReason = <<"rsi", "held">>

\* C18: an average-down buy order is submitted for a held position only if,
\* at decision time, its unrealized P/L percent is at or below
\* avg_down_loss_pct, its RSI at or below avg_down_rsi and its quantity at or
\* below avg_down_max_qty, whatever the user answers.
C18_AverageDownOnlyWhenEligible ==
    /\ analysis.step.outcome \in {"averaged_down", "buy_failed"} =>
          LET pos == analysis.step.before[analysis.step.symbol]
              snap == analysis.snaps[analysis.step.symbol]
              c == analysis.exit_cfg
          IN /\ RatLeq(RatScale(100, RatAdd(snap.price, RatScale(-1, pos.avg_price))), RatScale(c.avg_down_loss_pct, pos.avg_price))
             /\ snap.rsi <= c.avg_down_rsi
             /\ pos.qty <= c.avg_down_max_qty
    /\ \A i \in DOMAIN orders : orders[i].side = "buy" =>
          /\ analysis.snaps[orders[i].symbol].rsi <= analysis.exit_cfg.avg_down_rsi
          /\ orders[i].held

\* a position of 10 @ 100 that lost 10% with RSI 30 is averaged down by
\* 11 shares at 90
C18_Witness ==
    /\ analysis.step.outcome = "averaged_down" /\ analysis.step.choice = "a"
    /\ analysis.step.before[analysis.step.symbol] = Position(10, <<100, 1>>)
    /\ analysis.snaps[analysis.step.symbol].price = <<90, 1>>
    /\ analysis.snaps[analysis.step.symbol].rsi = 30
    /\ portfolio[analysis.step.symbol].qty = 21

(* ============================ the fetch loop =========================== *)
RequestsFor(d) == {i \in 1..Len(fetcher.events) : fetcher.events[i].kind = "request" /\ fetcher.events[i].date = d}
AllRequests == {i \in 1..Len(fetcher.events) : fetcher.events[i].kind = "request"}
Between(i, j) == SubSeq(fetcher.events, i + 1, j - 1)
\* i and j are two requests with no request in between
Consecutive(S, i, j) == i \in S /\ j \in S /\ i < j /\ ~\E k \in S : i < k /\ k < j
RECURSIVE Pow2(_)
Pow2(k) == IF k = 0 THEN 1 ELSE 2 * Pow2(k - 1)

C19_Retries ==
    \A d \in 1..fetcher.dates_to_fetch :
        LET R == RequestsFor(d)
        IN /\ Cardinality(R) <= 5
           /\ \A i \in R : fetcher.events[i].got => ~\E j \in R : j > i
           /\ \A i \in R, j \in R :
                Consecutive(R, i, j) => Between(i, j) = <<Sleep(Pow2(Cardinality({k \in R : k < j}) - 1))>>
           /\ (d < fetcher.d \/ fetcher.pc = "done") =>
                \/ \E i \in R : fetcher.events[i].got
                \/ Cardinality(R) = 5 /\ \E i \in 1..Len(fetcher.events) : fetcher.events[i] = GaveUp(d)

C20_RateLimitBetweenRequests ==
    fetcher.backfill =>
        \A i \in AllRequests, j \in AllRequests :
            Consecutive(AllRequests, i, j) => \E k \in 1..Len(Between(i, j)) : Between(i, j)[k] = Sleep(RATE_LIMIT)

\* C11: no order with quantity <= 0 is ever submitted: a candidate whose
\* reference price is <= 0 or whose computed quantity is 0 is skipped
\* without an error and the session proceeds to the next candidate.
C11_NoOrderWithoutQuantity ==
    /\ \A i \in DOMAIN orders : orders[i].qty > 0
    /\ session.step.outcome \in Approved => session.step.qty > 0
    /\ (session.step.priced /\ (session.step.price[1] <= 0 \/ session.step.qty = 0)) =>
          (session.step.outcome = "zero_qty" /\ session.pc # "crashed")

\* price * qty summed over the buy orders the broker accepted
RECURSIVE SpentOnBuys(_)
SpentOnBuys(seq) ==
    IF seq = <<>>
    THEN <<0, 1>>
    ELSE LET o == seq[Len(seq)]
         IN RatAdd(SpentOnBuys(SubSeq(seq, 1, Len(seq) - 1)), IF o.side = "buy" THEN RatScale(o.qty, o.price) ELSE <<0, 1>>)

\* C12: in a buy session the cumulative cost of the submitted buy orders
\* never exceeds the cash available at session start; each approved buy
\* reduces the cash carried to the next candidate, and a candidate whose cost
\* exceeds what is left is declined whole.
C12_BuysWithinCash ==
    /\ ~RatLess(AccountCash, SpentOnBuys(orders))
    /\ session.cash_available.known =>
          session.cash_available.amount = RatAdd(AccountCash, RatScale(-1, SpentOnBuys(orders)))
    /\ session.step.outcome = "no_cash" => session.step.symbol \notin {orders[i].symbol : i \in DOMAIN orders}

\* C13: the session stops processing candidates early only on the user's
\* "skip rest": after it no later candidate is prompted or submitted, and
\* without it no candidate's pricing, sizing or order failure ends the
\* session.
C13_StopsOnlyOnAbort ==
    /\ session.pc # "crashed"
    /\ session.step.after_abort => session.step.outcome \notin Prompted

\* C14: a symbol whose RSI is above 80 is a short-entry candidate: when a
\* (positive) price is available it is offered to the user, and on approval
\* a sell order with a positive quantity is submitted for it.
C14_OverboughtShortEntry ==
    (session.step.side = "sell" /\ session.step.priced /\ session.step.price[1] > 0) =>
        /\ session.step.outcome \in Prompted
        /\ session.step.outcome \in Approved => session.step.qty > 0

(* ------------------ a failed fetch of the broker account --------------- *)
\* C21: when the fetch of the broker's positions fails, the run of
\* reconcile_portfolio leaves the ledger as it found it: no position is
\* deleted (or otherwise changed) because of the failed fetch.
C21_FailedFetchKeepsLedger ==
    (last.op = "reconcile" /\ ~last.fetch_ok) =>
        /\ portfolio = last.before
        /\ last.deletes = {}

(* ------------------- what a submitted order changes -------------------- *)
\* The rows one pass appended to a log table: exactly one, or at most one
RowsAppended(before, after, exact) == IF exact THEN after = before + 1 ELSE after \in {before, before + 1}

\* One pass of interactive_menu: unless its order was submitted the ledger,
\* the two logs, the orders and the cash carried forward are as it found
\* them; a submitted order is one order and one row in each log
TradePassEffects(exact) ==
    (session.pc # "none" /\ session.step.outcome # "none") =>
        LET st == session.step
            b == st.before
        IN IF st.outcome = "submitted"
           THEN /\ Len(orders) = b.orders + 1
                /\ RowsAppended(b.logs.trade_log, logs.trade_log, exact)
                /\ RowsAppended(b.logs.trade_history, logs.trade_history, exact)
           ELSE /\ portfolio = b.portfolio
                /\ logs = b.logs
                /\ Len(orders) = b.orders
                /\ session.cash_available = b.cash_available

\* One pass of the analyzer's loop, in the same way
AnalyzerPassEffects(exact) ==
    (analysis.pc # "none" /\ analysis.step.outcome # "none") =>
        LET st == analysis.step
        IN IF st.outcome \in {"sold", "averaged_down"}
           THEN /\ Len(orders) = st.orders_before + 1
                /\ RowsAppended(st.logs_before.trade_log, logs.trade_log, exact)
                /\ RowsAppended(st.logs_before.trade_history, logs.trade_history, exact)
           ELSE /\ portfolio = st.before
                /\ logs = st.logs_before
                /\ Len(orders) = st.orders_before

\* C22 as stated: a failed submission changes nothing locally, the ledger,
\* the logs and the cash budget change only with a submitted order, and
\* each submitted order appends exactly one trade-log row and exactly one
\* trade-history row.
C22_OneRecordPerOrder == TradePassEffects(TRUE) /\ AnalyzerPassEffects(TRUE)

\* C22 amended: a failed submission changes nothing locally, the ledger,
\* the logs and the cash budget change only with a submitted order, and
\* each submitted order appends at most one trade-log row and at most one
\* trade-history row (one when its insert succeeds, none when it fails).
C22_AtMostOneRecordPerOrder == TradePassEffects(FALSE) /\ AnalyzerPassEffects(FALSE)

\* A trade session whose first order was submitted, with both log rows
\* written, and whose second order the broker refused
C22_Witness ==
    /\ session.pc # "none"
    /\ session.step.outcome = "order_failed"
    /\ session.step.before.orders = 1
    /\ Len(orders) = 1
    /\ logs = [trade_log |-> 1, trade_history |-> 1]
    /\ portfolio = session.step.before.portfolio
====
